---- MODULE Spec2Model ----
(***************************************************************************)
(* Model of _ext/rss.py: the RSS feed of tutorials built from the page     *)
(* metadata of a Sphinx build.  Text is modelled as sequences of           *)
(* one-character strings, so that escaping, parsing and formatting are     *)
(* computed character by character.                                        *)
(***************************************************************************)
EXTENDS Integers, Sequences, FiniteSets, TLC

\* ------------------------------------------------------------- bounds
\* Most pages in the build environment's metadata.
MaxPages == 2
\* Most items in a directly constructed RSSFeed.
MaxItems == 3
\* Most clock steps after the module was loaded.
MaxTicks == 2

\* ------------------------------------------------------------- evaluation
\* Python evaluates an expression once and binds the value to a name:
\* F applied to the value of e.
With(e, F(_)) == CHOOSE r \in {F(x) : x \in {e}} : TRUE

Ok(v) == [ok |-> TRUE, val |-> v]
Raise(e) == [ok |-> FALSE, err |-> e]

\* ------------------------------------------------------------- text helpers
\* str.replace(old, new) for a one-character old.
str_replace(s, old, new) ==
    With(s, LAMBDA v :
        LET rep[i \in 0..Len(v)] ==
                IF i = 0 THEN << >>
                ELSE rep[i - 1] \o (IF v[i] = old THEN new ELSE <<v[i]>>)
        IN  rep[Len(v)])

\* str.startswith(prefix)
startswith(s, prefix) ==
    /\ Len(s) >= Len(prefix)
    /\ SubSeq(s, 1, Len(prefix)) = prefix

\* The number of (possibly overlapping) occurrences of sub in s.
CountOccurrences(s, sub) ==
    IF sub = << >> THEN Len(s) + 1
    ELSE Cardinality({i \in 1..(Len(s) - Len(sub) + 1) :
                         s[i] = sub[1] /\ SubSeq(s, i, i + Len(sub) - 1) = sub})

\* html.escape(s, quote=True) of the standard library: what a call without
\* quote=False does.
escape_quote(s) ==
    str_replace(str_replace(str_replace(str_replace(str_replace(s,
        "&", <<"&","a","m","p",";">>), "<", <<"&","l","t",";">>), ">", <<"&","g","t",";">>), "\"", <<"&","q","u","o","t",";">>), "'", <<"&","#","x","2","7",";">>)

\* html.escape(s, quote=False): & first, then < and >, each a str.replace.
escape(s) ==
    str_replace(str_replace(str_replace(s, "&", <<"&","a","m","p",";">>), "<", <<"&","l","t",";">>), ">", <<"&","g","t",";">>)

\* sep.join(parts)
join(sep, parts) ==
    With(parts, LAMBDA p :
        LET joined[i \in 0..Len(p)] ==
                IF i = 0 THEN << >>
                ELSE IF i = 1 THEN p[1]
                ELSE joined[i - 1] \o sep \o p[i]
        IN  joined[Len(p)])

\* ------------------------------------------------------------- datetime
Digits == <<"0", "1", "2", "3", "4", "5", "6", "7", "8", "9">>

IsDigit(c) == \E d \in 1..10 : Digits[d] = c

DigitVal(c) == (CHOOSE d \in 1..10 : Digits[d] = c) - 1

\* int() of a text of digits.
ParseNat(s) ==
    With(s, LAMBDA v :
        LET value[i \in 0..Len(v)] ==
                IF i = 0 THEN 0 ELSE (10 * value[i - 1]) + DigitVal(v[i])
        IN  value[Len(v)])

AllDigits(s) == \A i \in 1..Len(s) : IsDigit(s[i])

\* "%02d" % n and "%04d" % n
Pad2(n) == <<Digits[((n \div 10) % 10) + 1], Digits[(n % 10) + 1]>>
Pad4(n) == Pad2(n \div 100) \o Pad2(n % 100)

IsLeap(y) == (y % 4) = 0 /\ ((y % 100) # 0 \/ (y % 400) = 0)

DaysInMonth(y, m) ==
    IF m = 2 THEN (IF IsLeap(y) THEN 29 ELSE 28)
    ELSE IF m \in {4, 6, 9, 11} THEN 30 ELSE 31

\* The days of the year before the first of month m.
DaysBeforeMonth(y, m) ==
    <<0, 31, 59, 90, 120, 151, 181, 212, 243, 273, 304, 334>>[m]
        + (IF m > 2 /\ IsLeap(y) THEN 1 ELSE 0)

DaysBeforeYear(y) ==
    ((y - 1) * 365) + ((y - 1) \div 4) - ((y - 1) \div 100) + ((y - 1) \div 400)

\* datetime.toordinal(): 1 for 0001-01-01.
Ymd2Ord(y, m, d) == DaysBeforeYear(y) + DaysBeforeMonth(y, m) + d

\* date.weekday(): 0 for Monday.
Weekday(y, m, d) == (Ymd2Ord(y, m, d) + 6) % 7

EpochOrd == Ymd2Ord(1970, 1, 1)

\* A datetime object.  tzaware is FALSE for a naive datetime (tzinfo None);
\* utcoffset is the offset of an aware one, in seconds.
datetime(y, mo, d, h, mi, s, aware, off) ==
    [year |-> y, month |-> mo, day |-> d, hour |-> h, minute |-> mi, second |-> s,
     tzaware |-> aware, utcoffset |-> off]

\* The wall-clock fields as seconds since 1970-01-01T00:00:00, the zone ignored.
WallSeconds(dt) ==
    ((Ymd2Ord(dt.year, dt.month, dt.day) - EpochOrd) * 86400)
        + (dt.hour * 3600) + (dt.minute * 60) + dt.second

\* The absolute instant of an aware datetime, as seconds since the epoch.
Instant(dt) == WallSeconds(dt) - dt.utcoffset

Years == 1970..2037

\* The naive datetime whose wall-clock fields are n seconds after 1970-01-01T00:00:00.
FromWallSeconds(n) ==
    With(n \div 86400, LAMBDA days :
    With(n % 86400, LAMBDA secs :
    With(CHOOSE yy \in Years :
            /\ DaysBeforeYear(yy) + 1 - EpochOrd <= days
            /\ days < DaysBeforeYear(yy + 1) + 1 - EpochOrd, LAMBDA y :
    With(days - (DaysBeforeYear(y) + 1 - EpochOrd), LAMBDA yday :
    With(CHOOSE mm \in 1..12 :
            /\ DaysBeforeMonth(y, mm) <= yday
            /\ yday < DaysBeforeMonth(y, mm) + DaysInMonth(y, mm), LAMBDA mo :
        datetime(y, mo, yday - DaysBeforeMonth(y, mo) + 1,
                 (secs \div 3600), ((secs % 3600) \div 60), (secs % 60), FALSE, 0))))))

\* datetime.fromtimestamp(ts): the naive local time of the process's zone.
fromtimestamp(ts, localoffset) == FromWallSeconds(ts + localoffset)

\* datetime.astimezone(UTC) of an aware datetime: the same instant in UTC.
astimezone_utc(dt) == [FromWallSeconds(Instant(dt)) EXCEPT !.tzaware = TRUE]

\* dt.replace(tzinfo=UTC): the fields kept, the zone relabelled.
replace_tzinfo_utc(dt) == [dt EXCEPT !.tzaware = TRUE, !.utcoffset = 0]

\* The zone part of an ISO-8601 text: "" (naive), "Z" or "+HH:MM" / "-HH:MM".
ParseTz(z) ==
    IF z = << >> THEN Ok([aware |-> FALSE, off |-> 0])
    ELSE IF z = <<"Z">> THEN Ok([aware |-> TRUE, off |-> 0])
    ELSE IF /\ Len(z) = 6
            /\ z[1] \in {"+", "-"}
            /\ AllDigits(SubSeq(z, 2, 3)) /\ z[4] = ":" /\ AllDigits(SubSeq(z, 5, 6))
            /\ ParseNat(SubSeq(z, 2, 3)) < 24 /\ ParseNat(SubSeq(z, 5, 6)) < 60
    THEN With((ParseNat(SubSeq(z, 2, 3)) * 3600) + (ParseNat(SubSeq(z, 5, 6)) * 60),
              LAMBDA secs :
                  Ok([aware |-> TRUE, off |-> IF z[1] = "-" THEN 0 - secs ELSE secs]))
    ELSE Raise("ValueError")

\* The fields of a text already known to have the shape of an ISO-8601 date/time.
ParseFields(s) ==
    [y  |-> ParseNat(SubSeq(s, 1, 4)),
     mo |-> ParseNat(SubSeq(s, 6, 7)),
     d  |-> ParseNat(SubSeq(s, 9, 10)),
     h  |-> IF Len(s) > 10 THEN ParseNat(SubSeq(s, 12, 13)) ELSE 0,
     mi |-> IF Len(s) > 10 THEN ParseNat(SubSeq(s, 15, 16)) ELSE 0,
     se |-> IF Len(s) > 10 THEN ParseNat(SubSeq(s, 18, 19)) ELSE 0,
     tz |-> ParseTz(SubSeq(s, 20, Len(s)))]

\* datetime.fromisoformat(s) for the forms YYYY-MM-DD and YYYY-MM-DD?HH:MM:SS with
\* an optional zone; any other text raises ValueError.
fromisoformat(text) ==
    With(text, LAMBDA s :
        IF ~ /\ Len(s) \in {10, 19, 20, 25}
             /\ AllDigits(SubSeq(s, 1, 4)) /\ s[5] = "-"
             /\ AllDigits(SubSeq(s, 6, 7)) /\ s[8] = "-"
             /\ AllDigits(SubSeq(s, 9, 10))
             /\ Len(s) > 10 =>
                   /\ AllDigits(SubSeq(s, 12, 13)) /\ s[14] = ":"
                   /\ AllDigits(SubSeq(s, 15, 16)) /\ s[17] = ":"
                   /\ AllDigits(SubSeq(s, 18, 19))
        THEN Raise("ValueError")
        ELSE With(ParseFields(s), LAMBDA f :
                IF /\ f.y >= 1 /\ f.mo \in 1..12
                   /\ f.d >= 1 /\ f.d <= DaysInMonth(f.y, f.mo)
                   /\ f.h < 24 /\ f.mi < 60 /\ f.se < 60
                   /\ f.tz.ok
                THEN Ok(datetime(f.y, f.mo, f.d, f.h, f.mi, f.se,
                                 f.tz.val.aware, f.tz.val.off))
                ELSE Raise("ValueError")))

DayNames == <<<<"M","o","n">>, <<"T","u","e">>, <<"W","e","d">>, <<"T","h","u">>, <<"F","r","i">>, <<"S","a","t">>, <<"S","u","n">>>>

MonthNames == <<<<"J","a","n">>, <<"F","e","b">>, <<"M","a","r">>, <<"A","p","r">>, <<"M","a","y">>, <<"J","u","n">>,
                <<"J","u","l">>, <<"A","u","g">>, <<"S","e","p">>, <<"O","c","t">>, <<"N","o","v">>, <<"D","e","c">>>>

\* email.utils.format_datetime(dt, usegmt=True) of a datetime in UTC (the only
\* caller hands it one): the fields of dt as written, followed by GMT.
format_datetime(dt) ==
    With(dt, LAMBDA d :
        DayNames[Weekday(d.year, d.month, d.day) + 1] \o <<","," ">>
            \o Pad2(d.day) \o <<" ">> \o MonthNames[d.month] \o <<" ">> \o Pad4(d.year) \o <<" ">>
            \o Pad2(d.hour) \o <<":">> \o Pad2(d.minute) \o <<":">> \o Pad2(d.second) \o <<" ","G","M","T">>)

\* _format_rfc_2822(dt)
format_rfc_2822(dt) ==
    With(replace_tzinfo_utc(dt), LAMBDA datetime_ : format_datetime(datetime_))

\* ------------------------------------------------------------- state
VARIABLES
    now,                      \* the clock: seconds since the epoch
    localtz,                  \* the process's local zone: its UTC offset in seconds
    default_last_build_date,  \* RSSFeed.last_build_date's default, set when the class is defined
    html_baseurl,             \* app.config.html_baseurl
    srcdir,                   \* the files under app.srcdir: path -> st_mtime
    metadata,                 \* app.builder.env.metadata, in the dict's order: <<[page, meta]>>
    outfile,                  \* <app.outdir>/tutorials.rss: [exists, content]
    prior,                    \* outfile as it was before the last call
    pc,                       \* the last operation that ran
    error,                    \* the exception the last operation raised, or "none"
    statted,                  \* the paths the last operation called stat() on
    item,                     \* what the last RSSItem.from_meta returned
    date_updated,             \* what the last RSSItem.get_date_updated returned
    feed,                     \* the last RSSFeed constructed
    built_at,                 \* the clock when feed was constructed
    rendered                  \* what the last render() returned

vars == <<now, localtz, default_last_build_date, html_baseurl, srcdir, metadata,
          outfile, prior, pc, error, statted, item, date_updated, feed, built_at,
          rendered>>

\* ------------------------------------------------------------- RSSItem
\* app.builder.get_target_uri(page_name) of the HTML builder, for page names that
\* need no URL quoting.
get_target_uri(page_name) == page_name \o <<".","h","t","m","l">>

\* The index of the last "/" of s, 0 if there is none.
LastSlash(s) ==
    IF \E i \in 1..Len(s) : s[i] = "/"
    THEN CHOOSE i \in 1..Len(s) : s[i] = "/" /\ \A j \in (i + 1)..Len(s) : s[j] # "/"
    ELSE 0

\* urllib.parse.urljoin(base, url) for a relative url without dot segments and a
\* base that is empty or has a path: the url replaces the base's last path segment.
urljoin(base, url) ==
    IF base = << >> THEN url
    ELSE IF url = << >> THEN base
    ELSE SubSeq(base, 1, LastSlash(base)) \o url

\* datetime.now(): the naive local time.
datetime_now == fromtimestamp(now, localtz)

\* A get_date_updated that takes the file's mtime when date_updated does not parse.
get_date_updated_lenient(page_name, meta) ==
    With(page_name \o <<".","m","d">>, LAMBDA page_path :
        IF "date_updated" \in DOMAIN meta /\ fromisoformat(meta["date_updated"]).ok
        THEN [res |-> fromisoformat(meta["date_updated"]), stats |-> {}]
        ELSE [res   |-> IF page_path \in DOMAIN srcdir
                        THEN Ok(fromtimestamp(srcdir[page_path], localtz))
                        ELSE Raise("FileNotFoundError"),
              stats |-> {page_path}])

\* RSSItem.get_date_updated(page_name, meta, app), with the paths it stats.
RSSItem_get_date_updated(page_name, meta) ==
    IF "date_updated" \in DOMAIN meta
    THEN [res |-> fromisoformat(meta["date_updated"]), stats |-> {}]
    ELSE With(page_name \o <<".","m","d">>, LAMBDA page_path :
            [res   |-> IF page_path \in DOMAIN srcdir
                       THEN Ok(fromtimestamp(srcdir[page_path], localtz))
                       ELSE Raise("FileNotFoundError"),
             stats |-> {page_path}])

\* The item from_meta builds once the date is known.
NewItem(meta, date, url) ==
    [title       |-> meta[":og:title"],
     description |-> meta[":og:description"],
     date        |-> date,
     author      |-> IF ":og:author" \in DOMAIN meta THEN meta[":og:author"]
                     ELSE <<"p","y","O","p","e","n","S","c","i">>,
     url         |-> url]

\* A from_meta that reads title and description with get(), blank when absent.
from_meta_with_get(page_name, meta) ==
    With(RSSItem_get_date_updated(page_name, meta), LAMBDA got :
        IF ~ got.res.ok THEN got
        ELSE [res   |-> Ok(NewItem((":og:title" :> << >>) @@ (":og:description" :> << >>)
                                       @@ meta,
                                   got.res.val,
                                   urljoin(html_baseurl, get_target_uri(page_name)))),
              stats |-> got.stats])

\* RSSItem.from_meta(page_name, meta, app): the keyword arguments are evaluated in
\* the order written, so a missing title or description raises before the date
\* is looked at.
RSSItem_from_meta(page_name, meta) ==
    IF ":og:title" \notin DOMAIN meta THEN [res |-> Raise("KeyError"), stats |-> {}]
    ELSE IF ":og:description" \notin DOMAIN meta
    THEN [res |-> Raise("KeyError"), stats |-> {}]
    ELSE With(RSSItem_get_date_updated(page_name, meta), LAMBDA got :
            IF ~ got.res.ok THEN got
            ELSE [res   |-> Ok(NewItem(meta, got.res.val,
                                       urljoin(html_baseurl, get_target_uri(page_name)))),
                  stats |-> got.stats])

\* A render that writes the title as it is.
render_raw_title(self) ==
    <<"<","i","t","e","m",">","\n"," "," ","<","t","i","t","l","e",">">> \o self.title
        \o <<"<","/","t","i","t","l","e",">","\n"," "," ","<","l","i","n","k",">">> \o escape(self.url)
        \o <<"<","/","l","i","n","k",">","\n"," "," ","<","d","e","s","c","r","i","p","t","i","o","n",">">> \o escape(self.description)
        \o <<"<","/","d","e","s","c","r","i","p","t","i","o","n",">","\n"," "," ","<","a","u","t","h","o","r",">">> \o escape(self.author)
        \o <<"<","/","a","u","t","h","o","r",">","\n"," "," ","<","g","u","i","d"," ","i","s","P","e","r","m","a","L","i","n","k","=","\"","t","r","u","e","\"",">">> \o self.url
        \o <<"<","/","g","u","i","d",">","\n"," "," ","<","p","u","b","D","a","t","e",">">> \o format_rfc_2822(self.date)
        \o <<"<","/","p","u","b","D","a","t","e",">","\n","<","/","i","t","e","m",">">>

\* A render that calls escape() without quote=False.
render_escaping_quotes(self) ==
    <<"<","i","t","e","m",">","\n"," "," ","<","t","i","t","l","e",">">> \o escape_quote(self.title)
        \o <<"<","/","t","i","t","l","e",">","\n"," "," ","<","l","i","n","k",">">> \o escape_quote(self.url)
        \o <<"<","/","l","i","n","k",">","\n"," "," ","<","d","e","s","c","r","i","p","t","i","o","n",">">> \o escape_quote(self.description)
        \o <<"<","/","d","e","s","c","r","i","p","t","i","o","n",">","\n"," "," ","<","a","u","t","h","o","r",">">> \o escape_quote(self.author)
        \o <<"<","/","a","u","t","h","o","r",">","\n"," "," ","<","g","u","i","d"," ","i","s","P","e","r","m","a","L","i","n","k","=","\"","t","r","u","e","\"",">">> \o self.url
        \o <<"<","/","g","u","i","d",">","\n"," "," ","<","p","u","b","D","a","t","e",">">> \o format_rfc_2822(self.date)
        \o <<"<","/","p","u","b","D","a","t","e",">","\n","<","/","i","t","e","m",">">>

\* RSSItem.render()
RSSItem_render(self) ==
    <<"<","i","t","e","m",">","\n"," "," ","<","t","i","t","l","e",">">> \o escape(self.title)
        \o <<"<","/","t","i","t","l","e",">","\n"," "," ","<","l","i","n","k",">">> \o escape(self.url)
        \o <<"<","/","l","i","n","k",">","\n"," "," ","<","d","e","s","c","r","i","p","t","i","o","n",">">> \o escape(self.description)
        \o <<"<","/","d","e","s","c","r","i","p","t","i","o","n",">","\n"," "," ","<","a","u","t","h","o","r",">">> \o escape(self.author)
        \o <<"<","/","a","u","t","h","o","r",">","\n"," "," ","<","g","u","i","d"," ","i","s","P","e","r","m","a","L","i","n","k","=","\"","t","r","u","e","\"",">">> \o self.url
        \o <<"<","/","g","u","i","d",">","\n"," "," ","<","p","u","b","D","a","t","e",">">> \o format_rfc_2822(self.date)
        \o <<"<","/","p","u","b","D","a","t","e",">","\n","<","/","i","t","e","m",">">>

\* ------------------------------------------------------------- RSSFeed
\* a < b for two datetimes that are both naive or both aware: naive ones compare
\* by their fields, aware ones by their instant.
datetime_lt(a, b) ==
    IF a.tzaware THEN Instant(a) < Instant(b) ELSE WallSeconds(a) < WallSeconds(b)

\* Comparing a naive datetime with an aware one raises TypeError.
Comparable(items) ==
    \A i, j \in 1..Len(items) : items[i].date.tzaware = items[j].date.tzaware

Reverse(s) == [i \in 1..Len(s) |-> s[Len(s) + 1 - i]]

\* x put into the ascending run after every element that is not greater than it.
InsertByDate(run, x) ==
    With(Cardinality({i \in 1..Len(run) : ~ datetime_lt(x.date, run[i].date)}),
         LAMBDA p : SubSeq(run, 1, p) \o <<x>> \o SubSeq(run, p + 1, Len(run)))

\* list.sort(key=lambda i: i.date): a stable ascending sort, by insertion.
SortByDate(items) ==
    LET sorted[k \in 0..Len(items)] ==
            IF k = 0 THEN << >>
            ELSE With(sorted[k - 1], LAMBDA run : InsertByDate(run, items[k]))
    IN  sorted[Len(items)]

\* A descending sort that reverses an ascending one: equal dates change places.
sorted_then_reversed(list) ==
    With(list, LAMBDA items :
        IF ~ Comparable(items) THEN Raise("TypeError")
        ELSE Ok(Reverse(SortByDate(items))))

\* sorted(items, key=lambda i: i.date, reverse=True): the list is reversed, sorted
\* ascending and stably, and reversed again.
sorted_by_date_reverse(list) ==
    With(list, LAMBDA items :
        IF ~ Comparable(items) THEN Raise("TypeError")
        ELSE With(Reverse(items), LAMBDA reversed :
                With(SortByDate(reversed), LAMBDA ascending : Ok(Reverse(ascending)))))

\* The defaults of RSSFeed's channel fields.
RSSFeed_title == <<"p","y","O","p","e","n","S","c","i"," ","T","u","t","o","r","i","a","l","s">>
RSSFeed_link == <<"h","t","t","p","s",":","/","/","w","w","w",".","p","y","o","p","e","n","s","c","i",".","o","r","g","/","p","y","t","h","o","n","-","p","a","c","k","a","g","e","-","g","u","i","d","e","/","t","u","t","o","r","i","a","l","s","/","i","n","t","r","o",".","h","t","m","l">>
RSSFeed_self_link == <<"h","t","t","p","s",":","/","/","w","w","w",".","p","y","o","p","e","n","s","c","i",".","o","r","g","/","p","y","t","h","o","n","-","p","a","c","k","a","g","e","-","g","u","i","d","e","/","t","u","t","o","r","i","a","l","s",".","r","s","s">>
RSSFeed_description == <<"A"," ","t","u","t","o","r","i","a","l"," ","f","e","e","d"," ","t","h","a","t"," ","l","i","s","t","s"," ","m","e","t","a","d","a","t","a"," ","f","o","r"," ","t","h","e"," ","p","y","O","p","e","n","S","c","i"," ","P","y","t","h","o","n"," ","p","a","c","k","a","g","i","n","g"," ","t","u","t","o","r","i","a","l","s"," ","s","o"," ","w","e"," ","c","a","n"," ","a","u","t","o","m","a","t","i","c","a","l","l","y"," ","l","i","s","t"," ","t","h","e","m"," ","o","n"," ","o","u","r"," ","w","e","b","s","i","t","e",".">>
RSSFeed_language == <<"e","n">>

\* The document RSSFeed.render() builds around the rendered items.
FeedDocument(last_build_date, items) ==
    <<"<","?","x","m","l"," ","v","e","r","s","i","o","n","=","'","1",".","0","'"," ","e","n","c","o","d","i","n","g","=","'","U","T","F","-","8","'","?",">","\n">>
        \o <<"<","r","s","s"," ","x","m","l","n","s",":","a","t","o","m","=","\"","h","t","t","p",":","/","/","w","w","w",".","w","3",".","o","r","g","/","2","0","0","5","/","A","t","o","m","\""," ","x","m","l","n","s",":","c","o","n","t","e","n","t","=","\"","h","t","t","p",":","/","/","p","u","r","l",".","o","r","g","/","r","s","s","/","1",".","0","/","m","o","d","u","l","e","s","/","c","o","n","t","e","n","t","/","\""," ","v","e","r","s","i","o","n","=","\"","2",".","0","\"",">","\n">>
        \o <<" "," ","<","c","h","a","n","n","e","l",">","\n">>
        \o <<" "," "," "," ","<","t","i","t","l","e",">">> \o RSSFeed_title \o <<"<","/","t","i","t","l","e",">","\n">>
        \o <<" "," "," "," ","<","l","i","n","k",">">> \o RSSFeed_link \o <<"<","/","l","i","n","k",">","\n">>
        \o <<" "," "," "," ","<","a","t","o","m",":","l","i","n","k"," ","h","r","e","f","=","\"">> \o RSSFeed_self_link \o <<"\""," ","r","e","l","=","\"","s","e","l","f","\"","/",">","\n">>
        \o <<" "," "," "," ","<","d","e","s","c","r","i","p","t","i","o","n",">">> \o RSSFeed_description \o <<"<","/","d","e","s","c","r","i","p","t","i","o","n",">","\n">>
        \o <<" "," "," "," ","<","l","a","n","g","u","a","g","e",">">> \o RSSFeed_language \o <<"<","/","l","a","n","g","u","a","g","e",">","\n">>
        \o <<" "," "," "," ","<","l","a","s","t","B","u","i","l","d","D","a","t","e",">">> \o last_build_date \o <<"<","/","l","a","s","t","B","u","i","l","d","D","a","t","e",">","\n">>
        \o items \o <<"\n">>
        \o <<" "," ","<","/","c","h","a","n","n","e","l",">","\n">>
        \o <<"<","/","r","s","s",">","\n">>
        \o <<" "," "," "," "," "," "," "," ">>

\* RSSFeed(items=items): last_build_date takes the class's default.
RSSFeed(items) == [items |-> items, last_build_date |-> default_last_build_date]

\* RSSFeed.render()
RSSFeed_render(self) ==
    With(sorted_by_date_reverse(self.items), LAMBDA items :
        IF ~ items.ok THEN items
        ELSE Ok(FeedDocument(format_rfc_2822(self.last_build_date),
                             join(<<"\n">>, [i \in 1..Len(items.val) |->
                                              RSSItem_render(items.val[i])]))))

\* ------------------------------------------------------------- the build step
\* The pages whose name contains tutorials/ anywhere.
select_containing(md) ==
    SelectSeq(md, LAMBDA e : CountOccurrences(e.page, <<"t","u","t","o","r","i","a","l","s","/">>) > 0)

\* [t for t in metadata if t.startswith("tutorials/")]
select_tutorials(md) ==
    SelectSeq(md, LAMBDA e : startswith(e.page, <<"t","u","t","o","r","i","a","l","s","/">>))

\* A comprehension that leaves out the pages whose item cannot be built.
build_items_skipping(tutorials) ==
    LET built[k \in 0..Len(tutorials)] ==
            IF k = 0 THEN [res |-> Ok(<< >>), stats |-> {}]
            ELSE With(built[k - 1], LAMBDA before :
                 With(RSSItem_from_meta(tutorials[k].page, tutorials[k].meta), LAMBDA this :
                    [res   |-> Ok(before.res.val
                                  \o (IF this.res.ok THEN <<this.res.val>> ELSE << >>)),
                     stats |-> before.stats \cup this.stats]))
    IN  built[Len(tutorials)]

\* [RSSItem.from_meta(t, metadata[t], app) for t in tutorials]: the first page
\* whose item cannot be built ends the comprehension with its exception.
build_items(tutorials) ==
    LET built[k \in 0..Len(tutorials)] ==
            IF k = 0 THEN [res |-> Ok(<< >>), stats |-> {}]
            ELSE With(built[k - 1], LAMBDA before :
                    IF ~ before.res.ok THEN before
                    ELSE With(RSSItem_from_meta(tutorials[k].page, tutorials[k].meta),
                              LAMBDA this :
                                [res   |-> IF this.res.ok
                                           THEN Ok(before.res.val \o <<this.res.val>>)
                                           ELSE this.res,
                                 stats |-> before.stats \cup this.stats]))
    IN  built[Len(tutorials)]

Unset == Raise("unset")

\* The file after open(path, "w") and the write of what render() returned: the
\* open creates or truncates it, and a render() that raises leaves it empty.
Written(text) ==
    [exists |-> TRUE, content |-> IF text.ok THEN text.val ELSE << >>]

\* generate_tutorials_feed(app): what the call leaves behind.  The file is opened
\* only once every item is built and the feed constructed.
generate_tutorials_feed ==
    With(select_tutorials(metadata), LAMBDA tutorials :
    With(build_items(tutorials), LAMBDA feed_items :
        IF ~ feed_items.res.ok
        THEN [error |-> feed_items.res.err, statted |-> feed_items.stats,
              feed |-> feed, built_at |-> built_at, rendered |-> rendered,
              outfile |-> outfile]
        ELSE With(RSSFeed(feed_items.res.val), LAMBDA new_feed :
             With(RSSFeed_render(new_feed), LAMBDA text :
                [error |-> IF text.ok THEN "none" ELSE text.err,
                 statted |-> feed_items.stats,
                 feed |-> new_feed, built_at |-> now, rendered |-> text,
                 outfile |-> Written(text)]))))

\* ------------------------------------------------------------- inputs
\* 2024-01-15T10:00:00Z, when the module is loaded.
LoadTime == (19737 * 86400) + 36000

LocalZones == {0, 7200}

\* The files under the source directory and their modification times;
\* tutorials/b has no source file.
SourceFiles ==
    (<<"t","u","t","o","r","i","a","l","s","/","a",".","m","d">> :> (LoadTime - 86400)) @@
    (<<"d","o","c","s","/","t","u","t","o","r","i","a","l","s","/","c",".","m","d">> :> (LoadTime - 7200)) @@
    (<<"t","u","t","o","r","i","a","l","s",".","m","d">> :> (LoadTime - 3600))

BaseUrls == {<< >>, <<"h","t","t","p","s",":","/","/","h","/","a","&","b","/">>}

Titles == {<< >>, <<"a">>, <<"A","&","B","<","c",">">>, <<"\"","q","'">>}
Descriptions == {<< >>, <<"a">>, <<"x",">","y">>}
Authors == {<<"R","&","D">>}
DatesUpdated == {<<"2","0","2","4","-","0","1","-","1","5","T","1","0",":","0","0",":","0","0">>, <<"2","0","2","4","-","0","1","-","1","5","T","1","2",":","0","0",":","0","0","+","0","2",":","0","0">>,
                 <<"2","0","2","4","-","0","1","-","1","5","T","2","3",":","0","0",":","0","0","-","0","5",":","0","0">>, <<"y","e","s","t","e","r","d","a","y">>, <<"2","0","2","4","-","1","3","-","0","1","T","0","0",":","0","0",":","0","0">>}

\* A key left out, or present with one of the values.
Optional(key, values) == {<< >>} \cup {key :> v : v \in values}

\* The metadata mappings of one page: each key present or not.
ItemMetas ==
    { t @@ d @@ a @@ u :
        t \in Optional(":og:title", Titles),
        d \in Optional(":og:description", Descriptions),
        a \in Optional(":og:author", Authors),
        u \in Optional("date_updated", DatesUpdated) }

ItemPages == {<<"t","u","t","o","r","i","a","l","s","/","a">>, <<"t","u","t","o","r","i","a","l","s","/","b">>}

\* The page names of a build: two under tutorials/, one that holds tutorials/
\* further down its path, one that is tutorials without the slash.
Pages == {<<"t","u","t","o","r","i","a","l","s","/","a">>, <<"t","u","t","o","r","i","a","l","s","/","b">>, <<"d","o","c","s","/","t","u","t","o","r","i","a","l","s","/","c">>, <<"t","u","t","o","r","i","a","l","s">>}

Complete == (":og:title" :> <<"T","<","1",">">>) @@ (":og:description" :> <<"d">>)

\* The metadata of a page of a build: complete with a zone-less date, complete
\* without a date, without a title, with a malformed date, with a date in a zone.
PageMetas ==
    { Complete @@ ("date_updated" :> <<"2","0","2","4","-","0","1","-","1","5","T","1","0",":","0","0",":","0","0">>),
      Complete,
      (":og:description" :> <<"d">>) @@ ("date_updated" :> <<"y","e","s","t","e","r","d","a","y">>),
      Complete @@ ("date_updated" :> <<"y","e","s","t","e","r","d","a","y">>),
      Complete @@ ("date_updated" :> <<"2","0","2","4","-","0","1","-","1","5","T","1","2",":","0","0",":","0","0","+","0","2",":","0","0">>) }

\* The dict env.metadata in its order: at most MaxPages pages, no page twice.
PageLists ==
    { md \in UNION {[1..n -> [page : Pages, meta : PageMetas]] : n \in 0..MaxPages} :
        \A i, j \in 1..Len(md) : md[i].page = md[j].page => i = j }

\* What tutorials.rss may hold before the build: nothing, or an earlier feed.
PriorFiles == {[exists |-> FALSE, content |-> << >>],
               [exists |-> TRUE, content |-> <<"<","r","s","s",">","o","l","d","<","/","r","s","s",">">>]}

\* The dates of the items of a directly constructed feed: three zone-less ones,
\* and three in a zone, of which two are the same instant and two are ordered by
\* instant against their wall clocks.
FeedDates ==
    { fromisoformat(s).val :
        s \in {<<"2","0","2","4","-","0","1","-","1","5","T","1","0",":","0","0",":","0","0">>, <<"2","0","2","4","-","0","1","-","1","6","T","0","9",":","0","0",":","0","0">>, <<"2","0","2","4","-","0","2","-","0","1","T","0","0",":","0","0",":","0","0">>,
               <<"2","0","2","4","-","0","1","-","1","5","T","1","2",":","0","0",":","0","0","+","0","2",":","0","0">>, <<"2","0","2","4","-","0","1","-","1","5","T","1","1",":","0","0",":","0","0","Z">>,
               <<"2","0","2","4","-","0","1","-","1","5","T","1","3",":","0","0",":","0","0","+","0","2",":","0","0">>} }

FeedItems ==
    { [title |-> t, description |-> <<"d">>, date |-> d, author |-> <<"p","y","O","p","e","n","S","c","i">>,
       url |-> <<"h","t","t","p","s",":","/","/","h","/","x",".","h","t","m","l">>] : t \in {<<"a">>, <<"b">>}, d \in FeedDates }

ItemLists == UNION {[1..n -> FeedItems] : n \in 0..MaxItems}

\* ------------------------------------------------------------- initial states
\* The module is loaded: the class RSSFeed is defined, and with it the default of
\* last_build_date is evaluated, once.
ModuleLoaded ==
    /\ now = LoadTime
    /\ default_last_build_date = datetime_now
    /\ srcdir = SourceFiles
    /\ prior = outfile
    /\ pc = "start"
    /\ error = "none"
    /\ statted = {}
    /\ item = Unset
    /\ date_updated = Unset
    /\ feed = Unset
    /\ built_at = LoadTime
    /\ rendered = Unset

\* A build: the environment's pages, and the output file of an earlier build.
Init ==
    /\ localtz \in LocalZones
    /\ html_baseurl = <<"h","t","t","p","s",":","/","/","h","/","g","/">>
    /\ metadata \in PageLists
    /\ outfile \in PriorFiles
    /\ ModuleLoaded

\* One page, for RSSItem's methods.
InitItem ==
    /\ localtz \in LocalZones
    /\ html_baseurl \in BaseUrls
    /\ metadata \in {<<[page |-> p, meta |-> m]>> : p \in ItemPages, m \in ItemMetas}
    /\ outfile = [exists |-> FALSE, content |-> << >>]
    /\ ModuleLoaded

\* No page, for RSSFeed's methods.
InitFeed ==
    /\ localtz = 0
    /\ html_baseurl = << >>
    /\ metadata = << >>
    /\ outfile = [exists |-> FALSE, content |-> << >>]
    /\ ModuleLoaded

\* ------------------------------------------------------------- actions
\* An hour passes.
Tick ==
    /\ now < LoadTime + (MaxTicks * 3600)
    /\ now' = now + 3600
    /\ UNCHANGED <<localtz, default_last_build_date, html_baseurl, srcdir, metadata,
                   outfile, prior, pc, error, statted, item, date_updated, feed, built_at,
                   rendered>>

\* generate_tutorials_feed(app)
GenerateTutorialsFeed ==
    \E after \in {generate_tutorials_feed} :
        /\ pc' = "generate"
        /\ prior' = outfile
        /\ outfile' = after.outfile
        /\ error' = after.error
        /\ statted' = after.statted
        /\ feed' = after.feed
        /\ built_at' = after.built_at
        /\ rendered' = after.rendered
        /\ UNCHANGED <<now, localtz, default_last_build_date, html_baseurl, srcdir,
                       metadata, item, date_updated>>

\* RSSItem.from_meta(page, meta, app) on the page
FromMeta ==
    /\ pc = "start"
    /\ \E got \in {RSSItem_from_meta(metadata[1].page, metadata[1].meta)} :
        /\ pc' = "from_meta"
        /\ item' = got.res
        /\ error' = IF got.res.ok THEN "none" ELSE got.res.err
        /\ statted' = got.stats
        /\ UNCHANGED <<now, localtz, default_last_build_date, html_baseurl, srcdir,
                       metadata, outfile, prior, date_updated, feed, built_at, rendered>>

\* RSSItem.get_date_updated(page, meta, app) on the page
GetDateUpdated ==
    /\ pc = "start"
    /\ \E got \in {RSSItem_get_date_updated(metadata[1].page, metadata[1].meta)} :
        /\ pc' = "get_date_updated"
        /\ date_updated' = got.res
        /\ error' = IF got.res.ok THEN "none" ELSE got.res.err
        /\ statted' = got.stats
        /\ UNCHANGED <<now, localtz, default_last_build_date, html_baseurl, srcdir,
                       metadata, outfile, prior, item, feed, built_at, rendered>>

\* item.render() on the item from_meta returned
RenderItem ==
    /\ pc = "from_meta"
    /\ item.ok
    /\ pc' = "render_item"
    /\ rendered' = Ok(RSSItem_render(item.val))
    /\ UNCHANGED <<now, localtz, default_last_build_date, html_baseurl, srcdir,
                   metadata, outfile, prior, error, statted, item, date_updated, feed,
                   built_at>>

\* RSSFeed(items=items)
ConstructFeed ==
    /\ pc = "start"
    /\ \E items \in ItemLists : feed' = RSSFeed(items)
    /\ built_at' = now
    /\ pc' = "construct_feed"
    /\ UNCHANGED <<now, localtz, default_last_build_date, html_baseurl, srcdir,
                   metadata, outfile, prior, error, statted, item, date_updated, rendered>>

\* feed.render() on the feed constructed
RenderFeed ==
    /\ pc = "construct_feed"
    /\ \E text \in {RSSFeed_render(feed)} :
        /\ pc' = "render_feed"
        /\ rendered' = text
        /\ error' = IF text.ok THEN "none" ELSE text.err
        /\ UNCHANGED <<now, localtz, default_last_build_date, html_baseurl, srcdir,
                       metadata, outfile, prior, statted, item, date_updated, feed, built_at>>

Next == Tick \/ GenerateTutorialsFeed

NextItem == FromMeta \/ GetDateUpdated \/ RenderItem

NextFeed == ConstructFeed \/ RenderFeed

\* A build of the documentation, at any time after the module was loaded.
Spec == Init /\ [][Next]_vars

\* RSSItem's methods on one page.
SpecItem == InitItem /\ [][NextItem]_vars

\* RSSFeed's methods on a list of items.
SpecFeed == InitFeed /\ [][NextFeed]_vars

\* ------------------------------------------------------------- properties
\* The page and the metadata RSSItem's methods were called on.
ThePage == metadata[1].page
TheMeta == metadata[1].meta

\* What the elements of an item should hold for a field's text: & < > replaced,
\* every other character (the quotes too) as it is.
EscapeChar(c) ==
    CASE c = "&" -> <<"&","a","m","p",";">>
      [] c = "<" -> <<"&","l","t",";">>
      [] c = ">" -> <<"&","g","t",";">>
      [] OTHER   -> <<c>>

Escaped(s) ==
    LET out[i \in 0..Len(s)] == IF i = 0 THEN << >> ELSE out[i - 1] \o EscapeChar(s[i])
    IN  out[Len(s)]

Element(tag, content) == <<" "," ","<">> \o tag \o <<">">> \o content \o <<"<","/">> \o tag \o <<">","\n">>

endswith(s, suffix) ==
    /\ Len(s) >= Len(suffix)
    /\ SubSeq(s, Len(s) - Len(suffix) + 1, Len(s)) = suffix

\* The place of a datetime on the time line: both operands of a comparison are
\* naive, or both aware.
SortKey(dt) == IF dt.tzaware THEN Instant(dt) ELSE WallSeconds(dt)

\* Where item i of the list belongs, newest first, equal dates in input order.
Rank(items, i) ==
    1 + Cardinality({j \in 1..Len(items) :
            \/ SortKey(items[j].date) > SortKey(items[i].date)
            \/ SortKey(items[j].date) = SortKey(items[i].date) /\ j < i})

NewestFirst(items) ==
    [k \in 1..Len(items) |-> items[CHOOSE i \in 1..Len(items) : Rank(items, i) = k]]

AllNaiveOrAllAware(items) ==
    \/ \A i \in 1..Len(items) : items[i].date.tzaware
    \/ \A i \in 1..Len(items) : ~ items[i].date.tzaware

C2_MissingFieldRaises ==
    (pc = "from_meta" /\ ~ ({":og:title", ":og:description"} \subseteq DOMAIN TheMeta)) =>
        /\ ~ item.ok
        /\ item.err = "KeyError"
        /\ error = "KeyError"

\* C2's case: the description is missing and the date is malformed as well.
C2_Witness ==
    /\ pc = "from_meta"
    /\ ":og:title" \in DOMAIN TheMeta
    /\ ":og:description" \notin DOMAIN TheMeta
    /\ "date_updated" \in DOMAIN TheMeta /\ TheMeta["date_updated"] = <<"y","e","s","t","e","r","d","a","y">>
    /\ error = "KeyError"

\* The pages of the build that are under tutorials/.
Selected == {i \in 1..Len(metadata) : startswith(metadata[i].page, <<"t","u","t","o","r","i","a","l","s","/">>)}

\* A page no item can be built from: a required field is missing, date_updated
\* does not parse, or there is no date_updated and no source file.
CannotBuild(e) ==
    \/ ":og:title" \notin DOMAIN e.meta
    \/ ":og:description" \notin DOMAIN e.meta
    \/ "date_updated" \in DOMAIN e.meta /\ ~ fromisoformat(e.meta["date_updated"]).ok
    \/ "date_updated" \notin DOMAIN e.meta /\ (e.page \o <<".","m","d">>) \notin DOMAIN srcdir

ErrorOf(e) ==
    IF ~ ({":og:title", ":og:description"} \subseteq DOMAIN e.meta) THEN "KeyError"
    ELSE IF "date_updated" \in DOMAIN e.meta THEN "ValueError"
    ELSE "FileNotFoundError"

\* C3: when the item of a selected page cannot be built, generate_tutorials_feed
\* raises the error of the first such page and tutorials.rss is as it was before
\* the call: not created, not truncated, not written.
C3_NoPartialFeed ==
    (pc = "generate" /\ \E i \in Selected : CannotBuild(metadata[i])) =>
        /\ error = ErrorOf(metadata[CHOOSE i \in Selected :
                       /\ CannotBuild(metadata[i])
                       /\ \A j \in Selected : CannotBuild(metadata[j]) => i <= j])
        /\ outfile = prior

\* C3's case: the first selected page gave an item, the second cannot, and an
\* earlier feed is on disk.
C3_Witness ==
    /\ pc = "generate"
    /\ Selected = {1, 2}
    /\ ~ CannotBuild(metadata[1]) /\ CannotBuild(metadata[2])
    /\ prior.exists /\ prior.content # << >>
    /\ outfile = prior
    /\ error = "ValueError"

GuidOf(page) ==
    <<"<","g","u","i","d"," ","i","s","P","e","r","m","a","L","i","n","k","=","\"","t","r","u","e","\"",">">> \o urljoin(html_baseurl, get_target_uri(page))
        \o <<"<","/","g","u","i","d",">">>

\* C4: the feed a successful generate_tutorials_feed writes holds one item for
\* each page whose name starts with tutorials/ and none for any other page.
C4_OnlyTutorialsPages ==
    (pc = "generate" /\ error = "none") =>
        /\ \A i \in 1..Len(metadata) :
              CountOccurrences(outfile.content, GuidOf(metadata[i].page))
                  = IF i \in Selected THEN 1 ELSE 0
        /\ CountOccurrences(outfile.content, <<"<","i","t","e","m",">">>) = Cardinality(Selected)

\* C4's case: a feed written from a page under tutorials/ and a page that only
\* holds tutorials/ further down its path.
C4_Witness ==
    /\ pc = "generate" /\ error = "none"
    /\ Len(metadata) = 2
    /\ metadata[1].page = <<"d","o","c","s","/","t","u","t","o","r","i","a","l","s","/","c">>
    /\ metadata[2].page = <<"t","u","t","o","r","i","a","l","s","/","a">>
    /\ CountOccurrences(outfile.content, <<"<","i","t","e","m",">">>) = 1

\* C4's other case: the page named tutorials, without the slash, beside a page
\* under tutorials/.
C4_WitnessNoSlash ==
    /\ pc = "generate" /\ error = "none"
    /\ \E i, j \in 1..Len(metadata) :
          metadata[i].page = <<"t","u","t","o","r","i","a","l","s">> /\ metadata[j].page = <<"t","u","t","o","r","i","a","l","s","/","a">>

\* What the date_updated texts of the inputs are as ISO-8601 date/times.
Iso8601 ==
    (<<"2","0","2","4","-","0","1","-","1","5","T","1","0",":","0","0",":","0","0">> :> Ok(datetime(2024, 1, 15, 10, 0, 0, FALSE, 0))) @@
    (<<"2","0","2","4","-","0","1","-","1","5","T","1","2",":","0","0",":","0","0","+","0","2",":","0","0">> :> Ok(datetime(2024, 1, 15, 12, 0, 0, TRUE, 7200))) @@
    (<<"2","0","2","4","-","0","1","-","1","5","T","2","3",":","0","0",":","0","0","-","0","5",":","0","0">> :> Ok(datetime(2024, 1, 15, 23, 0, 0, TRUE, 0 - 18000))) @@
    (<<"y","e","s","t","e","r","d","a","y">> :> Raise("ValueError")) @@
    (<<"2","0","2","4","-","1","3","-","0","1","T","0","0",":","0","0",":","0","0">> :> Raise("ValueError"))

\* C5: with date_updated in the metadata, get_date_updated returns it parsed as
\* ISO-8601, or raises ValueError when it is malformed, and stats no file; without
\* it, it stats <page>.md and returns its mtime as local time, or raises
\* FileNotFoundError when the file is missing.
C5_DateResolution ==
    pc = "get_date_updated" =>
        IF "date_updated" \in DOMAIN TheMeta
        THEN /\ date_updated = Iso8601[TheMeta["date_updated"]]
             /\ error = (IF date_updated.ok THEN "none" ELSE "ValueError")
             /\ statted = {}
        ELSE /\ statted = {ThePage \o <<".","m","d">>}
             /\ IF (ThePage \o <<".","m","d">>) \in DOMAIN srcdir
                THEN /\ date_updated =
                            Ok(FromWallSeconds(srcdir[ThePage \o <<".","m","d">>] + localtz))
                     /\ error = "none"
                ELSE /\ ~ date_updated.ok
                     /\ error = "FileNotFoundError"

\* C5's case: a malformed date_updated on a page whose source file exists.
C5_Witness ==
    /\ pc = "get_date_updated"
    /\ "date_updated" \in DOMAIN TheMeta /\ TheMeta["date_updated"] = <<"y","e","s","t","e","r","d","a","y">>
    /\ (ThePage \o <<".","m","d">>) \in DOMAIN srcdir
    /\ error = "ValueError"
    /\ statted = {}

\* C5's other case: no date_updated and no source file.
C5_WitnessNoFile ==
    /\ pc = "get_date_updated"
    /\ "date_updated" \notin DOMAIN TheMeta
    /\ error = "FileNotFoundError"

\* C6: the pubDate of an item whose date came from date_updated is that instant
\* in UTC (a zone-less date read as UTC), written per RFC 2822 with GMT.
C6_PubDateIsUtcInstant ==
    (pc = "render_item" /\ "date_updated" \in DOMAIN TheMeta) =>
        endswith(rendered.val,
                 <<" "," ","<","p","u","b","D","a","t","e",">">>
                     \o format_datetime(IF item.val.date.tzaware
                                        THEN astimezone_utc(item.val.date)
                                        ELSE replace_tzinfo_utc(item.val.date))
                     \o <<"<","/","p","u","b","D","a","t","e",">","\n","<","/","i","t","e","m",">">>)

\* C7: every item from_meta returns has a non-empty title, description and url.
C7_ItemFieldsNonEmpty ==
    (pc = "from_meta" /\ item.ok) =>
        /\ item.val.title # << >>
        /\ item.val.description # << >>
        /\ item.val.url # << >>

\* C8: the last_build_date of a feed constructed without one is the time of its
\* construction.
C8_LastBuildDateIsConstructionTime ==
    (pc = "generate" /\ error \in {"none", "TypeError"}) =>
        feed.last_build_date = fromtimestamp(built_at, localtz)

\* C9: the fragment RSSItem.render returns holds title, link, description and
\* author with & < > replaced by &amp; &lt; &gt; and the quotes as they are, and
\* the guid holds the url as it is.
C9_ElementsEscapedGuidVerbatim ==
    pc = "render_item" =>
        startswith(rendered.val,
                   <<"<","i","t","e","m",">","\n">>
                       \o Element(<<"t","i","t","l","e">>, Escaped(item.val.title))
                       \o Element(<<"l","i","n","k">>, Escaped(item.val.url))
                       \o Element(<<"d","e","s","c","r","i","p","t","i","o","n">>, Escaped(item.val.description))
                       \o Element(<<"a","u","t","h","o","r">>, Escaped(item.val.author))
                       \o <<" "," ","<","g","u","i","d"," ","i","s","P","e","r","m","a","L","i","n","k","=","\"","t","r","u","e","\"",">">> \o item.val.url \o <<"<","/","g","u","i","d",">","\n">>
                       \o <<" "," ","<","p","u","b","D","a","t","e",">">>)

\* C9's case: a title with & and <, a description with >, an author and a url
\* with &.
C9_Witness ==
    /\ pc = "render_item"
    /\ item.val.title = <<"A","&","B","<","c",">">>
    /\ item.val.description = <<"x",">","y">>
    /\ item.val.author = <<"R","&","D">>
    /\ item.val.url = <<"h","t","t","p","s",":","/","/","h","/","a","&","b","/","t","u","t","o","r","i","a","l","s","/","a",".","h","t","m","l">>

\* C9's other case: a title with both quotes.
C9_WitnessQuotes ==
    /\ pc = "render_item"
    /\ item.val.title = <<"\"","q","'">>
    /\ CountOccurrences(rendered.val, <<"<","t","i","t","l","e",">","\"","q","'","<","/","t","i","t","l","e",">">>) = 1

\* C10 as stated, for a title and a description that are not empty: the fragment
\* holds the escaped title once and the escaped description once.
C10_ExactlyOnce ==
    (pc = "render_item" /\ item.val.title # << >> /\ item.val.description # << >>) =>
        /\ CountOccurrences(rendered.val, Escaped(item.val.title)) = 1
        /\ CountOccurrences(rendered.val, Escaped(item.val.description)) = 1

\* The date of the page resolves: date_updated is well formed, or it is absent
\* and the source file exists.
DateResolves ==
    IF "date_updated" \in DOMAIN TheMeta THEN Iso8601[TheMeta["date_updated"]].ok
    ELSE (ThePage \o <<".","m","d">>) \in DOMAIN srcdir

\* C10 amended: from metadata with :og:title and :og:description whose date
\* resolves, from_meta returns an item, and the fragment holds the escaped title
\* as its title element and the escaped description as its description element,
\* so each at least once.
C10_AtLeastOnce ==
    /\ (/\ pc = "from_meta"
        /\ {":og:title", ":og:description"} \subseteq DOMAIN TheMeta
        /\ DateResolves) => item.ok
    /\ pc = "render_item" =>
          /\ item.val.title = TheMeta[":og:title"]
          /\ item.val.description = TheMeta[":og:description"]
          /\ CountOccurrences(rendered.val,
                 <<"<","t","i","t","l","e",">">> \o Escaped(TheMeta[":og:title"]) \o <<"<","/","t","i","t","l","e",">">>) >= 1
          /\ CountOccurrences(rendered.val,
                 <<"<","d","e","s","c","r","i","p","t","i","o","n",">">> \o Escaped(TheMeta[":og:description"])
                     \o <<"<","/","d","e","s","c","r","i","p","t","i","o","n",">">>) >= 1
          /\ CountOccurrences(rendered.val, Escaped(TheMeta[":og:title"])) >= 1
          /\ CountOccurrences(rendered.val, Escaped(TheMeta[":og:description"])) >= 1

\* C10's case: title and description are the same text, which the fragment
\* then holds more than once.
C10_Witness ==
    /\ pc = "render_item"
    /\ item.val.title = <<"a">>
    /\ item.val.description = <<"a">>
    /\ CountOccurrences(rendered.val, <<"a">>) > 2

====
